---- MODULE Spec2Model ----
(***************************************************************************)
(* The local-storage variant of the breek client: the posts collection of  *)
(* PostContext (kept by useLocalStorage under the key 'posts') and the     *)
(* comments collection of CommentContext (kept under the key 'comments').  *)
(*                                                                         *)
(* A string is modelled by its shape [lead, body, trail]: the number of    *)
(* leading white-space characters, the number of characters from the first *)
(* to the last non-blank one, and the number of trailing white-space       *)
(* characters.  String.length and String.trim are computed on that shape.  *)
(*                                                                         *)
(* Date.now() is the variable now.  It is read by the creators only.  A    *)
(* creator takes the reading dt milliseconds before the next one: Spec and *)
(* SpecComments model calls made at distinct clock readings (dt = 1).      *)
(*                                                                         *)
(* The model follows one browser tab (its rendered posts, its React state, *)
(* its comments, its queue of storage events); a second tab that shares    *)
(* localStorage is the variable other, and switchTab exchanges the two.    *)
(***************************************************************************)
EXTENDS Integers, Sequences, FiniteSets, TLC

VARIABLES
    posts,      \* storedValue of useLocalStorage('posts'): the rendered Post[]
    pending,    \* the React state behind storedValue: the value of the next render
    lsPosts,    \* window.localStorage['posts'] (parsed)
    comments,   \* the comments state of CommentProvider
    lsComments, \* window.localStorage['comments'] (parsed)
    lsUsers,    \* window.localStorage['users'] (parsed)
    session,    \* the id of AuthContext's currentUser, NoUser when logged out
    storageFull,\* localStorage.setItem throws (the quota is exceeded)
    batching,   \* an event handler is running: React renders when it returns
    other,      \* a second tab sharing localStorage, NoTab while there is none
    inbox,      \* the storage events queued for this tab (their newValue)
    now,        \* the next reading of Date.now()
    before,     \* history: the two collections before the last call
    last        \* history: the last call, the error its validation raised,
                \* the error its caller saw, and the outcome of its storage write

vars == <<posts, pending, lsPosts, comments, lsComments, lsUsers, session,
          storageFull, batching, other, inbox, now, before, last>>

----------------------------------------------------------------------------
(* Bounds *)

MaxTime == 3            \* the creators of Spec, SpecComments and SpecText run while the clock reads at most MaxTime
MaxCascade == 4         \* the creators of SpecCascade run while the clock reads at most MaxCascade
MaxLikes == 2           \* the creators of SpecLikes run while the clock reads at most MaxLikes
MaxAll == 2             \* the creators of SpecAll run while the clock reads at most MaxAll
MaxTabs == 3            \* the creators of SpecTabs run while the clock reads at most MaxTabs
MaxTerminal == 2        \* the creators of SpecTerminal run while the clock reads at most MaxTerminal
MaxService == 3         \* the creators of SpecService run while the clock reads at most MaxService
MaxBatch == 3           \* the creators of SpecBatch run while the clock reads at most MaxBatch
MaxAccount == 2         \* the creators of SpecAccount run while the clock reads at most MaxAccount
MaxBurst == 2           \* SpecBurst: the clock reads at most MaxBurst and a collection holds at most MaxBurst + 1 items

Users == {"u1", "u2"}
Writers == {"u1"}       \* the callers of SpecText
NoUser == "undefined"   \* an absent optional user id
Undefined == 0          \* an absent optional id (item ids are clock readings >= 1)
\* the value of other while no second tab is open
NoTab == [open |-> FALSE, posts |-> <<>>, comments |-> <<>>, inbox |-> <<>>]

MAX_CHARACTERS == 67

----------------------------------------------------------------------------
(* Strings *)

Str(l, b, t) == [lead |-> l, body |-> b, trail |-> t]

Length(s) == s.lead + s.body + s.trail

\* String.prototype.trim: drops the leading and the trailing white space
Trim(s) == Str(0, s.body, 0)

NoText == <<>>          \* an absent optional string; a present one is <<s>>

\* the bodies callers pass: " hi " and a body of 68 characters
Bodies == {Str(1, 2, 1), Str(0, 68, 0)}

\* the body every post of Spec is created with
Drafts == {Str(1, 2, 1)}

\* the quote bodies callers pass
QuoteBodies == {Str(1, 3, 0)}

CommentIdInputs == {1, 2}

\* the bodies the callers of SpecBlank pass to editPost and createQuoteRepost:
\* " hi " and a body of two blanks
Texts == {Str(1, 2, 1), Str(2, 0, 0)}

\* the bodies the callers of SpecLikes pass to editPost: "hello" and a body of 68 characters
Edits == {Str(0, 5, 0), Str(0, 68, 0)}

----------------------------------------------------------------------------
(* Arrays *)

\* Array.prototype.find / findIndex: index of the first element passing Test, 0 if none
FindIndex(arr, Test(_)) ==
    IF \E i \in 1..Len(arr) : Test(arr[i])
    THEN CHOOSE i \in 1..Len(arr) : Test(arr[i]) /\ \A j \in 1..(i - 1) : ~Test(arr[j])
    ELSE 0

\* Array.prototype.some
Some(arr, Test(_)) == \E i \in 1..Len(arr) : Test(arr[i])

\* Array.prototype.filter
Filter(arr, Test(_)) == SelectSeq(arr, Test)

\* Array.prototype.map
Map(arr, F(_)) == [i \in 1..Len(arr) |-> F(arr[i])]

Range(arr) == {arr[i] : i \in 1..Len(arr)}

----------------------------------------------------------------------------
(* The result of running an updater inside setValue's try block *)

Return(value) == [err |-> "none", value |-> value]
Throw(err, prev) == [err |-> err, value |-> prev]

\* a Post with only the mandatory fields set
PlainPost(id, content, authorId) ==
    [id |-> id, content |-> content, authorId |-> authorId, createdAt |-> id,
     likes |-> <<>>, isRepost |-> FALSE, isQuote |-> FALSE,
     isCommentRepost |-> FALSE, originalPostId |-> Undefined,
     originalCommentId |-> Undefined, originalAuthorId |-> NoUser,
     isReplyRepost |-> FALSE, quoteContent |-> NoText]

----------------------------------------------------------------------------
(* PostContext updaters *)

createPostUpdater(prevPosts, currentUser, content, t) ==
    Return(<<PlainPost(t, Trim(content), currentUser)>> \o prevPosts)

deletePostKeep_NoCascade(post, currentUser, postId) ==
    \/ post.id # postId
    \/ (post.id = postId /\ post.authorId # currentUser)

\* the filter of deletePost: the items that stay
deletePostKeep(post, currentUser, postId) ==
    \/ (post.id # postId /\ ~(post.isRepost /\ post.originalPostId = postId))
    \/ (post.id = postId /\ post.authorId # currentUser)

deletePostUpdater(prevPosts, currentUser, postId) ==
    LET i == FindIndex(prevPosts, LAMBDA post : post.id = postId) IN
    IF i = 0 THEN Throw("NotFound", prevPosts)
    ELSE IF prevPosts[i].authorId # currentUser THEN Throw("Forbidden", prevPosts)
    ELSE Return(Filter(prevPosts, LAMBDA post : deletePostKeep(post, currentUser, postId)))

exceedsLimit_Never(content) == FALSE

\* the character limit test of editPost
exceedsLimit(content) == Length(content) > 67

editPostUpdater(prevPosts, currentUser, postId, content) ==
    LET i == FindIndex(prevPosts, LAMBDA post : post.id = postId) IN
    IF i = 0 THEN Throw("NotFound", prevPosts)
    ELSE IF prevPosts[i].authorId # currentUser THEN Throw("Forbidden", prevPosts)
    ELSE IF exceedsLimit(content) THEN Throw("ContentTooLong", prevPosts)
    ELSE Return(Map(prevPosts, LAMBDA post :
            IF post.id = postId /\ post.authorId = currentUser
            THEN [post EXCEPT !.content = Trim(content)]
            ELSE post))

likesIncludes_Never(post, currentUser) == FALSE

\* post.likes.includes(currentUser.id)
likesIncludes(post, currentUser) == \E k \in 1..Len(post.likes) : post.likes[k] = currentUser

likePostUpdater_AsAuthor(prevPosts, currentUser, postId) ==
    LET i == FindIndex(prevPosts, LAMBDA post : post.id = postId) IN
    IF i = 0 THEN Throw("NotFound", prevPosts)
    ELSE IF likesIncludes(prevPosts[i], prevPosts[i].authorId) THEN Return(prevPosts)
    ELSE Return(Map(prevPosts, LAMBDA post :
            IF post.id = postId
            THEN [post EXCEPT !.likes = Append(post.likes, post.authorId)]
            ELSE post))

likePostUpdater(prevPosts, currentUser, postId) ==
    LET i == FindIndex(prevPosts, LAMBDA post : post.id = postId) IN
    IF i = 0 THEN Throw("NotFound", prevPosts)
    ELSE IF likesIncludes(prevPosts[i], currentUser) THEN Return(prevPosts)
    ELSE Return(Map(prevPosts, LAMBDA post :
            IF post.id = postId
            THEN [post EXCEPT !.likes = Append(post.likes, currentUser)]
            ELSE post))

unlikePostUpdater(prevPosts, currentUser, postId) ==
    LET i == FindIndex(prevPosts, LAMBDA post : post.id = postId) IN
    IF i = 0 THEN Throw("NotFound", prevPosts)
    ELSE IF ~likesIncludes(prevPosts[i], currentUser) THEN Return(prevPosts)
    ELSE Return(Map(prevPosts, LAMBDA post :
            IF post.id = postId
            THEN [post EXCEPT !.likes = Filter(post.likes, LAMBDA id : id # currentUser)]
            ELSE post))

\* hasReposted over the rendered collection
hasReposted(renderedPosts, currentUser, contentId, isComment) ==
    Some(renderedPosts, LAMBDA post :
        IF isComment
        THEN post.isRepost /\ post.originalCommentId = contentId /\ post.authorId = currentUser
        ELSE /\ post.isRepost
             /\ ~post.isQuote
             /\ post.originalPostId = contentId
             /\ post.authorId = currentUser)

isUserRepostOf_QuotesOnly(p, currentUser, originalPostId) ==
    /\ p.isRepost
    /\ p.isQuote
    /\ p.originalPostId = originalPostId
    /\ p.authorId = currentUser

\* the alreadyReposted / repostedOriginal test of repostPost
isUserRepostOf(p, currentUser, originalPostId) ==
    /\ p.isRepost
    /\ ~p.isQuote
    /\ p.originalPostId = originalPostId
    /\ p.authorId = currentUser

isOwnRepost_Never(post, currentUser) == FALSE

\* the "repost their own repost" test of repostPost
isOwnRepost(post, currentUser) == post.isRepost /\ post.authorId = currentUser

resolveOriginal_NoCollapse(post, postId) == postId

\* the originalPostId a repost or a quote of post is given
resolveOriginal(post, postId) ==
    IF post.isRepost THEN post.originalPostId ELSE postId

\* repostPost putting the new repost behind the existing posts
repostPostUpdater_Append(prevPosts, currentUser, postId, t) ==
    LET i == FindIndex(prevPosts, LAMBDA p : p.id = postId) IN
    IF i = 0 THEN Throw("NotFound", prevPosts)
    ELSE LET post == prevPosts[i]
             originalPostId == resolveOriginal(post, postId)
         IN
         IF Some(prevPosts, LAMBDA p : isUserRepostOf(p, currentUser, postId))
         THEN Throw("AlreadyRelated", prevPosts)
         ELSE IF isOwnRepost(post, currentUser)
         THEN Throw("SelfRepostDenied", prevPosts)
         ELSE IF Some(prevPosts, LAMBDA p : isUserRepostOf(p, currentUser, originalPostId))
         THEN Throw("AlreadyRelated", prevPosts)
         ELSE Return(prevPosts \o <<[PlainPost(t, post.content, currentUser) EXCEPT
                           !.isRepost = TRUE,
                           !.originalPostId = originalPostId]>>)

repostPostUpdater(prevPosts, currentUser, postId, t) ==
    LET i == FindIndex(prevPosts, LAMBDA p : p.id = postId) IN
    IF i = 0 THEN Throw("NotFound", prevPosts)
    ELSE LET post == prevPosts[i]
             originalPostId == resolveOriginal(post, postId)
         IN
         IF Some(prevPosts, LAMBDA p : isUserRepostOf(p, currentUser, postId))
         THEN Throw("AlreadyRelated", prevPosts)
         ELSE IF isOwnRepost(post, currentUser)
         THEN Throw("SelfRepostDenied", prevPosts)
         ELSE IF Some(prevPosts, LAMBDA p : isUserRepostOf(p, currentUser, originalPostId))
         THEN Throw("AlreadyRelated", prevPosts)
         ELSE Return(<<[PlainPost(t, post.content, currentUser) EXCEPT
                           !.isRepost = TRUE,
                           !.originalPostId = originalPostId]>> \o prevPosts)

\* the userRepost lookup of unrepostPost
unrepostFinds(p, currentUser, postId) ==
    /\ p.isRepost
    /\ p.originalPostId = postId
    /\ p.authorId = currentUser

unrepostPostUpdater(prevPosts, currentUser, postId) ==
    LET i == FindIndex(prevPosts, LAMBDA p : p.id = postId) IN
    IF i = 0 THEN Throw("NotFound", prevPosts)
    ELSE LET post == prevPosts[i] IN
         IF post.isRepost
         THEN IF post.authorId # currentUser
              THEN Throw("Forbidden", prevPosts)
              ELSE Return(Filter(prevPosts, LAMBDA p : p.id # post.id))
         ELSE LET j == FindIndex(prevPosts, LAMBDA p : unrepostFinds(p, currentUser, postId)) IN
              IF j = 0
              THEN Throw("NotFound", prevPosts)
              ELSE Return(Filter(prevPosts, LAMBDA p : p.id # prevPosts[j].id))

isUserQuoteOf_Target(p, currentUser, originalPostId) ==
    /\ p.isQuote
    /\ p.id = originalPostId
    /\ p.authorId = currentUser

\* the test shared by hasQuoted, getUserQuoteOfPost and createQuoteRepost
isUserQuoteOf(p, currentUser, originalPostId) ==
    /\ p.isQuote
    /\ p.originalPostId = originalPostId
    /\ p.authorId = currentUser

\* hasQuoted over the rendered collection
hasQuoted(renderedPosts, currentUser, contentId) ==
    Some(renderedPosts, LAMBDA post : isUserQuoteOf(post, currentUser, contentId))

\* getUserQuoteOfPost over the rendered collection: index of the quote, 0 for null
getUserQuoteOfPost(renderedPosts, currentUser, postId) ==
    FindIndex(renderedPosts, LAMBDA p : isUserQuoteOf(p, currentUser, postId))

\* unquotePost looks the post up in prevPosts, the user's quote in the rendered posts
unquotePostUpdater(prevPosts, renderedPosts, currentUser, postId) ==
    LET i == FindIndex(prevPosts, LAMBDA p : p.id = postId)
        q == getUserQuoteOfPost(renderedPosts, currentUser, postId)
        userQuote ==
            IF i # 0 /\ ~prevPosts[i].isQuote
            THEN (IF q = 0 THEN <<>> ELSE <<renderedPosts[q]>>)
            ELSE IF i # 0 /\ prevPosts[i].isQuote /\ prevPosts[i].authorId = currentUser
                 THEN <<prevPosts[i]>>
                 ELSE <<>>
    IN
    IF userQuote = <<>> THEN Throw("NotFound", prevPosts)
    ELSE IF userQuote[1].authorId # currentUser THEN Throw("Forbidden", prevPosts)
    ELSE Return(Filter(prevPosts, LAMBDA p : p.id # userQuote[1].id))

isQuotePost_Never(post) == FALSE

\* the "quoting a quote post" test of createQuoteRepost
isQuotePost(post) == post.isQuote

createQuoteRepostUpdater(prevPosts, currentUser, postId, quoteContent, t) ==
    LET i == FindIndex(prevPosts, LAMBDA p : p.id = postId) IN
    IF i = 0 THEN Throw("NotFound", prevPosts)
    ELSE LET post == prevPosts[i]
             originalPostId == resolveOriginal(post, postId)
         IN
         IF isQuotePost(post) THEN Throw("QuoteOfQuoteDenied", prevPosts)
         ELSE IF Some(prevPosts, LAMBDA p : isUserQuoteOf(p, currentUser, originalPostId))
         THEN Throw("AlreadyQuoted", prevPosts)
         ELSE Return(<<[PlainPost(t, post.content, currentUser) EXCEPT
                           !.quoteContent = <<Trim(quoteContent)>>,
                           !.isRepost = TRUE,
                           !.isQuote = TRUE,
                           !.originalPostId = originalPostId]>> \o prevPosts)

isUserCommentRepostOf_PostId(post, currentUser, commentId) ==
    /\ post.isRepost
    /\ post.isCommentRepost
    /\ post.originalPostId = commentId
    /\ post.authorId = currentUser

\* the alreadyReposted / existingRepost test of createCommentRepost
isUserCommentRepostOf(post, currentUser, commentId) ==
    /\ post.isRepost
    /\ post.isCommentRepost
    /\ post.originalCommentId = commentId
    /\ post.authorId = currentUser

\* createCommentRepost tests the rendered posts before it calls setPosts
createCommentRepostUpdater(prevPosts, renderedPosts, currentUser, commentId, content, originalAuthorId, isReply, t) ==
    IF Some(renderedPosts, LAMBDA post : isUserCommentRepostOf(post, currentUser, commentId))
    THEN Throw("AlreadyReposted", prevPosts)
    ELSE Return(<<[PlainPost(t, content, currentUser) EXCEPT
                      !.isRepost = TRUE,
                      !.isCommentRepost = TRUE,
                      !.originalCommentId = commentId,
                      !.originalAuthorId = originalAuthorId,
                      !.isReplyRepost = isReply]>> \o prevPosts)

----------------------------------------------------------------------------
(* CommentContext: each operation computes the new array from the rendered *)
(* comments and hands it to saveComments                                   *)

\* the Comment createComment builds
NewComment(id, content, authorId, postId, parentId) ==
    [id |-> id, content |-> content, authorId |-> authorId, postId |-> postId,
     createdAt |-> id, likes |-> <<>>, parentId |-> parentId]

createCommentResult(cs, currentUser, postId, content, parentId, t) ==
    IF Length(content) > MAX_CHARACTERS THEN Throw("ContentTooLong", cs)
    ELSE Return(cs \o <<NewComment(t, content, currentUser, postId, parentId)>>)

\* commentIdsToDelete of deleteComment: the comment and its child comments
commentIdsToDelete(cs, commentId) ==
    {commentId} \cup {cs[i].id : i \in {j \in 1..Len(cs) : cs[j].parentId = commentId}}

\* the filter of deleteComment: the comments that stay
deleteCommentKeep(comment, ids, currentUser) ==
    \/ comment.id \notin ids
    \/ (comment.id \in ids /\ comment.authorId # currentUser)

deleteCommentResult(cs, currentUser, commentId) ==
    Return(Filter(cs, LAMBDA comment :
        deleteCommentKeep(comment, commentIdsToDelete(cs, commentId), currentUser)))

editCommentResult(cs, currentUser, commentId, content) ==
    IF Length(content) > MAX_CHARACTERS THEN Throw("ContentTooLong", cs)
    ELSE Return(Map(cs, LAMBDA comment :
            IF comment.id = commentId /\ comment.authorId = currentUser
            THEN [comment EXCEPT !.content = content]
            ELSE comment))

likeCommentResult(cs, currentUser, commentId) ==
    Return(Map(cs, LAMBDA comment :
        IF comment.id = commentId /\ ~Some(comment.likes, LAMBDA id : id = currentUser)
        THEN [comment EXCEPT !.likes = Append(comment.likes, currentUser)]
        ELSE comment))

unlikeCommentResult(cs, currentUser, commentId) ==
    Return(Map(cs, LAMBDA comment :
        IF comment.id = commentId
        THEN [comment EXCEPT !.likes = Filter(comment.likes, LAMBDA id : id # currentUser)]
        ELSE comment))

----------------------------------------------------------------------------
(* useLocalStorage.setValue: the updater runs inside try; when it throws,  *)
(* neither the state nor localStorage is written.                          *)

Call(op, user, target, body) == [op |-> op, user |-> user, target |-> target, body |-> body]

NoBody == Str(0, 0, 0)

\* the storage events a write of value to key 'posts' queues for the second tab
\* (none when the stored value does not change)
notifyOther(value) ==
    IF ~other.open \/ value = lsPosts
    THEN other
    ELSE [other EXCEPT !.inbox = Append(other.inbox, value)]

\* what a call leaves in last
Outcome(call, err, thrown, write) == [call |-> call, err |-> err, thrown |-> thrown, write |-> write]

\* the frame of a PostContext call: the comments, the users and the session stay
postsFrame ==
    /\ before' = [posts |-> posts, comments |-> comments]
    /\ UNCHANGED <<comments, lsComments, lsUsers, session, storageFull, batching, inbox>>

setValue_ClearsOnThrow(r, call) ==
    /\ posts' = IF r.err = "none" THEN r.value ELSE <<>>
    /\ pending' = posts'
    /\ lsPosts' = posts'
    /\ other' = other
    /\ last' = Outcome(call, r.err, "none", IF r.err = "none" THEN "ok" ELSE "none")
    /\ postsFrame

\* setValue: value(storedValue) runs on the rendered value; the new value goes
\* to the React state, then to localStorage; whatever is thrown on the way is
\* caught and logged
setValue(r, call) ==
    /\ pending' = IF r.err = "none" THEN r.value ELSE pending
    /\ posts' = IF batching THEN posts ELSE pending'
    /\ lsPosts' = IF r.err = "none" /\ ~storageFull THEN r.value ELSE lsPosts
    /\ other' = IF r.err = "none" /\ ~storageFull THEN notifyOther(r.value) ELSE other
    /\ last' = Outcome(call, r.err, "none",
                       IF r.err # "none" THEN "none" ELSE IF storageFull THEN "failed" ELSE "ok")
    /\ postsFrame

----------------------------------------------------------------------------
(* PostContext operations *)

createPost(currentUser, content, dt) ==
    /\ setValue(createPostUpdater(posts, currentUser, content, now),
                Call("createPost", currentUser, Undefined, content))
    /\ now' = now + dt

deletePost(currentUser, postId) ==
    /\ setValue(deletePostUpdater(posts, currentUser, postId),
                Call("deletePost", currentUser, postId, NoBody))
    /\ UNCHANGED now

editPost(currentUser, postId, content) ==
    /\ setValue(editPostUpdater(posts, currentUser, postId, content),
                Call("editPost", currentUser, postId, content))
    /\ UNCHANGED now

likePost(currentUser, postId) ==
    /\ setValue(likePostUpdater(posts, currentUser, postId),
                Call("likePost", currentUser, postId, NoBody))
    /\ UNCHANGED now

unlikePost(currentUser, postId) ==
    /\ setValue(unlikePostUpdater(posts, currentUser, postId),
                Call("unlikePost", currentUser, postId, NoBody))
    /\ UNCHANGED now

repostPost(currentUser, postId, dt) ==
    /\ setValue(repostPostUpdater(posts, currentUser, postId, now),
                Call("repostPost", currentUser, postId, NoBody))
    /\ now' = IF last'.err = "none" THEN now + dt ELSE now

unrepostPost(currentUser, postId) ==
    /\ setValue(unrepostPostUpdater(posts, currentUser, postId),
                Call("unrepostPost", currentUser, postId, NoBody))
    /\ UNCHANGED now

unquotePost(currentUser, postId) ==
    /\ setValue(unquotePostUpdater(posts, posts, currentUser, postId),
                Call("unquotePost", currentUser, postId, NoBody))
    /\ UNCHANGED now

createQuoteRepost(currentUser, postId, quoteContent, dt) ==
    /\ setValue(createQuoteRepostUpdater(posts, currentUser, postId, quoteContent, now),
                Call("createQuoteRepost", currentUser, postId, quoteContent))
    /\ now' = IF last'.err = "none" THEN now + dt ELSE now

\* createCommentRepost tests the rendered posts and throws to its caller
\* before it reaches setPosts
createCommentRepost(currentUser, commentId, content, originalAuthorId, isReply, dt) ==
    LET r == createCommentRepostUpdater(posts, posts, currentUser, commentId,
                                        content, originalAuthorId, isReply, now)
        call == Call("createCommentRepost", currentUser, commentId, content)
    IN
    /\ IF r.err = "none"
       THEN setValue(r, call)
       ELSE /\ last' = Outcome(call, r.err, r.err, "none")
            /\ postsFrame
            /\ UNCHANGED <<posts, pending, lsPosts, other>>
    /\ now' = IF last'.err = "none" THEN now + dt ELSE now

----------------------------------------------------------------------------
(* CommentContext operations *)

\* saveComments sets the state, then writes localStorage; an operation that
\* threw before reaching it writes neither, and what localStorage.setItem
\* throws reaches the caller
saveComments(r, call) ==
    /\ comments' = IF r.err = "none" THEN r.value ELSE comments
    /\ lsComments' = IF r.err = "none" /\ ~storageFull THEN r.value ELSE lsComments
    /\ before' = [posts |-> posts, comments |-> comments]
    /\ last' = IF r.err # "none" THEN Outcome(call, r.err, r.err, "none")
               ELSE IF storageFull THEN Outcome(call, "none", "QuotaExceeded", "failed")
               ELSE Outcome(call, "none", "none", "ok")
    /\ UNCHANGED <<posts, pending, lsPosts, lsUsers, session, storageFull, batching, other, inbox>>

createComment(currentUser, postId, content, parentId, dt) ==
    /\ saveComments(createCommentResult(comments, currentUser, postId, content, parentId, now),
                    Call("createComment", currentUser, postId, content))
    /\ now' = IF last'.err = "none" THEN now + dt ELSE now

deleteComment(currentUser, commentId) ==
    /\ saveComments(deleteCommentResult(comments, currentUser, commentId),
                    Call("deleteComment", currentUser, commentId, NoBody))
    /\ UNCHANGED now

editComment(currentUser, commentId, content) ==
    /\ saveComments(editCommentResult(comments, currentUser, commentId, content),
                    Call("editComment", currentUser, commentId, content))
    /\ UNCHANGED now

likeComment(currentUser, commentId) ==
    /\ saveComments(likeCommentResult(comments, currentUser, commentId),
                    Call("likeComment", currentUser, commentId, NoBody))
    /\ UNCHANGED now

unlikeComment(currentUser, commentId) ==
    /\ saveComments(unlikeCommentResult(comments, currentUser, commentId),
                    Call("unlikeComment", currentUser, commentId, NoBody))
    /\ UNCHANGED now

----------------------------------------------------------------------------
(* AuthContext and UserContext: the session and the 'users' key.  A        *)
(* password is the sequence of its character codes; every user registered  *)
(* with the password "pw".                                                 *)

Secret == <<112, 119>>
Guess == <<112, 120>>
Passwords == {Secret, Guess}

\* hash & hash: the value as a signed 32-bit integer (one wrap; the sums of
\* the passwords used here stay far below 2^31)
ToInt32(n) ==
    LET MaxInt32 == 2147483647 IN
    IF n > MaxInt32 THEN ((n - MaxInt32) - MaxInt32) - 2
    ELSE IF n < (0 - MaxInt32) - 1 THEN ((n + MaxInt32) + MaxInt32) + 2
    ELSE n

RECURSIVE hashChars(_, _)
hashChars(password, hash) ==
    IF password = <<>> THEN hash
    ELSE hashChars(Tail(password), ToInt32(((hash * 32) - hash) + Head(password)))

hashPassword(password) == hashChars(password, 0)

\* the password hash register stored in the user's record
storedPassword(user) == hashPassword(Secret)

\* what an AuthContext or UserContext call leaves in the history variables
authStep(op, currentUser, err) ==
    /\ before' = [posts |-> posts, comments |-> comments]
    /\ last' = Outcome(Call(op, currentUser, Undefined, NoBody), err, "none", "none")

login(username, password) ==
    LET i == FindIndex(lsUsers, LAMBDA u : u.id = username)
        ok == i # 0 /\ storedPassword(lsUsers[i]) = hashPassword(password)
    IN
    /\ session' = IF ok THEN username ELSE session
    /\ authStep("login", username, IF i = 0 THEN "UserNotFound"
                                   ELSE IF ok THEN "none" ELSE "InvalidPassword")
    /\ UNCHANGED <<posts, pending, lsPosts, comments, lsComments, lsUsers, storageFull,
                   batching, other, inbox, now>>

\* followUser, through updateProfile({following})
followUser(userId) ==
    LET currentUser == session
        i == FindIndex(lsUsers, LAMBDA u : u.id = currentUser)
        follows == /\ userId # currentUser
                   /\ ~Some(lsUsers[i].following, LAMBDA id : id = userId)
                   /\ ~storageFull
    IN
    /\ session # NoUser
    /\ i # 0
    /\ lsUsers' = IF follows
                  THEN [lsUsers EXCEPT ![i].following = Append(lsUsers[i].following, userId)]
                  ELSE lsUsers
    /\ authStep("followUser", currentUser, "none")
    /\ UNCHANGED <<posts, pending, lsPosts, comments, lsComments, session, storageFull,
                   batching, other, inbox, now>>

\* the posts deactivateAccount keeps
deactivateKeepsPost(post, currentUser, userPostIds) ==
    /\ post.authorId # currentUser
    /\ ~(post.isRepost /\ post.originalPostId \in userPostIds)

\* the comments deactivateAccount keeps; the comments CommentContext stores
\* have no isRepost field
deactivateKeepsComment(comment, currentUser, userCommentIds) ==
    comment.authorId # currentUser

withoutLikesOf(item, currentUser) ==
    [item EXCEPT !.likes = Filter(item.likes, LAMBDA id : id # currentUser)]

withoutFollowing(user, currentUser) ==
    [user EXCEPT !.following = Filter(user.following, LAMBDA id : id # currentUser)]

deactivateAccount(password) ==
    LET currentUser == session
        i == FindIndex(lsUsers, LAMBDA user : user.id = currentUser)
        ok == /\ i # 0
              /\ storedPassword(lsUsers[i]) = hashPassword(password)
              /\ ~storageFull
        updatedUsers == Filter(lsUsers, LAMBDA user : user.id # currentUser)
        userPostIds == {lsPosts[k].id : k \in {k \in 1..Len(lsPosts) : lsPosts[k].authorId = currentUser}}
        updatedPosts == Filter(lsPosts, LAMBDA post : deactivateKeepsPost(post, currentUser, userPostIds))
        userCommentIds == {lsComments[k].id : k \in {k \in 1..Len(lsComments) : lsComments[k].authorId = currentUser}}
        updatedComments == Filter(lsComments, LAMBDA comment : deactivateKeepsComment(comment, currentUser, userCommentIds))
        postsWithLikesRemoved == Map(updatedPosts, LAMBDA post : withoutLikesOf(post, currentUser))
        commentsWithLikesRemoved == Map(updatedComments, LAMBDA comment : withoutLikesOf(comment, currentUser))
        usersWithFollowingUpdated == Map(updatedUsers, LAMBDA user : withoutFollowing(user, currentUser))
    IN
    /\ session # NoUser
    /\ lsUsers' = IF ok THEN usersWithFollowingUpdated ELSE lsUsers
    /\ lsPosts' = IF ok THEN postsWithLikesRemoved ELSE lsPosts
    /\ lsComments' = IF ok THEN commentsWithLikesRemoved ELSE lsComments
    /\ other' = IF ok THEN notifyOther(postsWithLikesRemoved) ELSE other
    /\ session' = IF ok THEN NoUser ELSE session
    /\ authStep("deactivateAccount", currentUser, IF ok THEN "none" ELSE "Refused")
    /\ UNCHANGED <<posts, pending, comments, storageFull, batching, inbox, now>>

----------------------------------------------------------------------------
(* PostService (services/api.ts): reads and writes the 'posts' key of      *)
(* localStorage directly; generateId appends a random suffix to the clock  *)
(* reading, modelled by a clock reading no other item was given            *)

PostService_createPostResult(stored, content, authorId, t) ==
    IF Length(Trim(content)) = 0 THEN Throw("ValidationFailed", stored)
    ELSE IF Length(content) > MAX_CHARACTERS THEN Throw("ValidationFailed", stored)
    ELSE Return(<<PlainPost(t, Trim(content), authorId)>> \o stored)

PostService_repostPostResult(stored, id, currentUserId, t) ==
    LET i == FindIndex(stored, LAMBDA post : post.id = id) IN
    IF i = 0 THEN Throw("NotFound", stored)
    ELSE LET originalPost == stored[i]
             alreadyReposted == Some(stored, LAMBDA post : /\ post.isRepost
                                                           /\ post.originalPostId = id
                                                           /\ post.authorId = currentUserId)
             originalPostId == IF originalPost.isRepost THEN originalPost.originalPostId ELSE id
         IN
         IF alreadyReposted THEN Throw("OperationInvalid", stored)
         ELSE Return(<<[PlainPost(t, originalPost.content, currentUserId) EXCEPT
                           !.isRepost = TRUE,
                           !.originalPostId = originalPostId]>> \o stored)

\* ApiService.setItem: the write, or DATA_STORAGE_FAILED thrown to the caller
ApiService_setItem(r, call) ==
    /\ lsPosts' = IF r.err = "none" /\ ~storageFull THEN r.value ELSE lsPosts
    /\ other' = IF r.err = "none" /\ ~storageFull THEN notifyOther(r.value) ELSE other
    /\ last' = IF r.err # "none" THEN Outcome(call, r.err, r.err, "none")
               ELSE IF storageFull THEN Outcome(call, "StorageFailed", "StorageFailed", "failed")
               ELSE Outcome(call, "none", "none", "ok")
    /\ now' = IF last'.err = "none" THEN now + 1 ELSE now
    /\ before' = [posts |-> posts, comments |-> comments]
    /\ UNCHANGED <<posts, pending, comments, lsComments, lsUsers, session, storageFull, batching, inbox>>

PostService_createPost(content, authorId) ==
    ApiService_setItem(PostService_createPostResult(lsPosts, content, authorId, now),
                       Call("PostService.createPost", authorId, Undefined, content))

PostService_repostPost(id, currentUserId) ==
    ApiService_setItem(PostService_repostPostResult(lsPosts, id, currentUserId, now),
                       Call("PostService.repostPost", currentUserId, id, NoBody))

----------------------------------------------------------------------------
(* The browser *)

\* what a step of the browser leaves in the history variables
browserStep(op) ==
    /\ before' = [posts |-> posts, comments |-> comments]
    /\ last' = Outcome(Call(op, NoUser, Undefined, NoBody), "none", "none", "none")

\* localStorage fills up or is freed: setItem starts or stops throwing
quotaChanges ==
    /\ storageFull' = ~storageFull
    /\ browserStep("quotaChanges")
    /\ UNCHANGED <<posts, pending, lsPosts, comments, lsComments, lsUsers, session,
                   batching, other, inbox, now>>

\* a second tab is opened: its useLocalStorage and its CommentProvider read
\* localStorage when they mount
openTab ==
    /\ ~other.open
    /\ other' = [open |-> TRUE, posts |-> lsPosts, comments |-> lsComments, inbox |-> <<>>]
    /\ browserStep("openTab")
    /\ UNCHANGED <<posts, pending, lsPosts, comments, lsComments, lsUsers, session,
                   storageFull, batching, inbox, now>>

\* the user turns to the other tab: from here on the calls are made there;
\* no code runs, so the last call and what it found stay as they are
switchTab ==
    /\ other.open
    /\ ~batching
    /\ posts' = other.posts
    /\ pending' = other.posts
    /\ comments' = other.comments
    /\ inbox' = other.inbox
    /\ other' = [open |-> TRUE, posts |-> posts, comments |-> comments, inbox |-> inbox]
    /\ UNCHANGED <<lsPosts, lsComments, lsUsers, session, storageFull, batching, now,
                   before, last>>

\* handleStorageChange: this tab takes the newValue of the oldest storage
\* event queued for it as its state
handleStorageChange ==
    /\ inbox # <<>>
    /\ ~batching
    /\ posts' = Head(inbox)
    /\ pending' = Head(inbox)
    /\ inbox' = Tail(inbox)
    /\ browserStep("handleStorageChange")
    /\ UNCHANGED <<lsPosts, comments, lsComments, lsUsers, session, storageFull,
                   batching, other, now>>

\* an event handler starts: React defers rendering until it returns, so the
\* calls it makes all see the storedValue of the current render
handlerBegins ==
    /\ ~batching
    /\ batching' = TRUE
    /\ browserStep("handlerBegins")
    /\ UNCHANGED <<posts, pending, lsPosts, comments, lsComments, lsUsers, session,
                   storageFull, other, inbox, now>>

\* the event handler returns and React renders: storedValue is the state
\* the last setStoredValue left
render ==
    /\ batching
    /\ batching' = FALSE
    /\ posts' = pending
    /\ browserStep("render")
    /\ UNCHANGED <<pending, lsPosts, comments, lsComments, lsUsers, session,
                   storageFull, other, inbox, now>>

----------------------------------------------------------------------------

\* the user records of the registered users: nobody follows anybody yet
Registered == [i \in 1..2 |-> [id |-> IF i = 1 THEN "u1" ELSE "u2", following |-> <<>>]]

Init ==
    /\ posts = <<>>
    /\ pending = <<>>
    /\ lsPosts = <<>>
    /\ comments = <<>>
    /\ lsComments = <<>>
    /\ lsUsers = Registered
    /\ session = NoUser
    /\ storageFull = FALSE
    /\ batching = FALSE
    /\ other = NoTab
    /\ inbox = <<>>
    /\ now = 1
    /\ before = [posts |-> <<>>, comments |-> <<>>]
    /\ last = Outcome(Call("init", NoUser, Undefined, NoBody), "none", "none", "none")

\* the ids callers pass: every id issued so far, and one that was never issued
PostIds == 1..now

\* the creators read the clock while it reads at most bound
Within(bound) == now' <= bound + 1

\* Spec: the relationship operations of PostContext, called at distinct clock
\* readings; every post is created with the body " hi "
Next ==
    \/ \E u \in Users, c \in Drafts : createPost(u, c, 1) /\ Within(MaxTime)
    \/ \E u \in Users, id \in PostIds : deletePost(u, id)
    \/ \E u \in Users, id \in PostIds, c \in Bodies : editPost(u, id, c)
    \/ \E u \in Users, id \in PostIds : repostPost(u, id, 1) /\ Within(MaxTime)
    \/ \E u \in Users, id \in PostIds : unrepostPost(u, id)
    \/ \E u \in Users, id \in PostIds : unquotePost(u, id)
    \/ \E u \in Users, id \in PostIds, c \in QuoteBodies : createQuoteRepost(u, id, c, 1) /\ Within(MaxTime)

Spec == Init /\ [][Next]_vars

\* the ids of the stored posts, and one that no post has
PostIdInputs == {posts[i].id : i \in 1..Len(posts)} \cup {now}

\* the ids of the stored comments
CommentIds == {comments[i].id : i \in 1..Len(comments)}

\* SpecComments: the operations of CommentContext on the comments of posts
\* created with the body " hi "
NextComments ==
    \/ \E u \in Users, c \in Drafts : createPost(u, c, 1) /\ Within(MaxTime)
    \/ \E u \in Users, p \in PostIdInputs, c \in Bodies, k \in CommentIds \cup {Undefined} :
           createComment(u, p, c, k, 1) /\ Within(MaxTime)
    \/ \E u \in Users, k \in CommentIds \cup {now} : deleteComment(u, k)
    \/ \E u \in Users, k \in CommentIds \cup {now}, c \in Bodies : editComment(u, k, c)

SpecComments == Init /\ [][NextComments]_vars

\* SpecText: the operations that store a body a caller passes, called by one user
NextText ==
    \/ \E u \in Writers, c \in Bodies : createPost(u, c, 1) /\ Within(MaxTime)
    \/ \E u \in Writers, id \in PostIdInputs, c \in Bodies : editPost(u, id, c)
    \/ \E u \in Writers, id \in PostIdInputs, c \in Bodies : createQuoteRepost(u, id, c, 1) /\ Within(MaxTime)
    \/ \E u \in Writers, k \in Range(comments), c \in Bodies :
           createCommentRepost(u, k.id, c, k.authorId, k.parentId # Undefined, 1) /\ Within(MaxTime)
    \/ \E u \in Writers, p \in PostIdInputs, c \in Bodies : createComment(u, p, c, Undefined, 1) /\ Within(MaxTime)
    \/ \E u \in Writers, k \in CommentIds \cup {now}, c \in Bodies : editComment(u, k, c)

SpecText == Init /\ [][NextText]_vars

\* SpecCascade: posts written by one user, reposts and quotes of them by every user, and deletePost
NextCascade ==
    \/ \E u \in Writers, c \in Drafts : createPost(u, c, 1) /\ Within(MaxCascade)
    \/ \E u \in Users, id \in PostIds : repostPost(u, id, 1) /\ Within(MaxCascade)
    \/ \E u \in Users, id \in PostIds, c \in QuoteBodies : createQuoteRepost(u, id, c, 1) /\ Within(MaxCascade)
    \/ \E u \in Users, id \in PostIds : deletePost(u, id)

SpecCascade == Init /\ [][NextCascade]_vars

\* SpecBlank: posts written by one user, edited by their author and quoted by every user
NextBlank ==
    \/ \E u \in Writers, c \in Drafts : createPost(u, c, 1) /\ Within(MaxTime)
    \/ \E u \in Writers, id \in PostIdInputs, c \in Texts : editPost(u, id, c)
    \/ \E u \in Users, id \in PostIdInputs, c \in Texts : createQuoteRepost(u, id, c, 1) /\ Within(MaxTime)

SpecBlank == Init /\ [][NextBlank]_vars

\* SpecLikes: posts written by one user; every user edits, deletes, likes and unlikes them
NextLikes ==
    \/ \E u \in Writers, c \in Drafts : createPost(u, c, 1) /\ Within(MaxLikes)
    \/ \E u \in Users, id \in PostIds, c \in Edits : editPost(u, id, c)
    \/ \E u \in Users, id \in PostIds : deletePost(u, id)
    \/ \E u \in Users, id \in PostIds : likePost(u, id)
    \/ \E u \in Users, id \in PostIds : unlikePost(u, id)

SpecLikes == Init /\ [][NextLikes]_vars

\* SpecStorage: posts and comments written and edited by one user while
\* localStorage fills up and is freed
NextStorage ==
    \/ \E u \in Writers, c \in Drafts : createPost(u, c, 1) /\ Within(MaxTime)
    \/ \E u \in Writers, id \in PostIdInputs, c \in Edits : editPost(u, id, c)
    \/ \E u \in Writers, p \in PostIdInputs, c \in Drafts : createComment(u, p, c, Undefined, 1) /\ Within(MaxTime)
    \/ \E u \in Writers, k \in CommentIds \cup {now}, c \in Edits : editComment(u, k, c)
    \/ quotaChanges

SpecStorage == Init /\ [][NextStorage]_vars

\* SpecTabs: two tabs sharing localStorage; one user, logged in in both,
\* writes and reposts posts in either tab
NextTabs ==
    \/ \E u \in Writers, c \in Drafts : createPost(u, c, 1) /\ Within(MaxTabs)
    \/ \E u \in Writers, id \in PostIds : repostPost(u, id, 1) /\ Within(MaxTabs)
    \/ openTab
    \/ switchTab
    \/ handleStorageChange

SpecTabs == Init /\ [][NextTabs]_vars

\* SpecTerminal: two tabs sharing localStorage; one user, logged in in both,
\* writes and deletes posts in either tab
NextTerminal ==
    \/ \E u \in Writers, c \in Drafts : createPost(u, c, 1) /\ Within(MaxTerminal)
    \/ \E u \in Writers, id \in PostIds : deletePost(u, id)
    \/ openTab
    \/ switchTab
    \/ handleStorageChange

SpecTerminal == Init /\ [][NextTerminal]_vars

\* SpecService: posts created and reposted through PostService
NextService ==
    \/ \E u \in Users, c \in Texts : PostService_createPost(c, u) /\ Within(MaxService)
    \/ \E u \in Users, id \in PostIds : PostService_repostPost(id, u) /\ Within(MaxService)

SpecService == Init /\ [][NextService]_vars

\* SpecBatch: event handlers that make one or several PostContext calls before
\* React renders
NextBatch ==
    \/ \E u \in Writers, c \in Drafts : createPost(u, c, 1) /\ Within(MaxBatch)
    \/ \E u \in Users, id \in PostIds : likePost(u, id)
    \/ \E u \in Writers, id \in PostIds : deletePost(u, id)
    \/ handlerBegins
    \/ render

SpecBatch == Init /\ [][NextBatch]_vars

\* SpecAccount: users log in, post, comment, like and follow, and deactivate
\* their accounts
NextAccount ==
    \/ \E u \in Users, pw \in Passwords : login(u, pw)
    \/ \E c \in Drafts : session # NoUser /\ createPost(session, c, 1) /\ Within(MaxAccount)
    \/ \E id \in PostIdInputs, c \in Drafts :
          session # NoUser /\ createComment(session, id, c, Undefined, 1) /\ Within(MaxAccount)
    \/ \E id \in PostIdInputs : session # NoUser /\ likePost(session, id)
    \/ \E u \in Users : followUser(u)
    \/ \E pw \in Passwords : deactivateAccount(pw)

SpecAccount == Init /\ [][NextAccount]_vars

\* the time Date.now() advances by between two calls: none within one
\* millisecond, one otherwise
Elapsed == {0, 1}

\* SpecBurst: posts, reposts and comments created in immediate succession as
\* well as at distinct clock readings
NextBurst ==
    \/ \E u \in Writers, c \in Drafts, dt \in Elapsed :
          Len(posts) <= MaxBurst /\ createPost(u, c, dt) /\ Within(MaxBurst)
    \/ \E u \in Users, id \in PostIds, dt \in Elapsed :
          Len(posts) <= MaxBurst /\ repostPost(u, id, dt) /\ Within(MaxBurst)
    \/ \E u \in Writers, id \in PostIdInputs, c \in Drafts, dt \in Elapsed :
          Len(comments) <= MaxBurst /\ createComment(u, id, c, Undefined, dt) /\ Within(MaxBurst)
    \/ \E u \in Writers, id \in PostIds : deletePost(u, id)

SpecBurst == Init /\ [][NextBurst]_vars

\* SpecAll: every operation of PostContext and CommentContext that validates
\* its call, on posts and comments written and liked by one user
NextAll ==
    \/ \E u \in Writers, c \in Drafts : createPost(u, c, 1) /\ Within(MaxAll)
    \/ \E u \in Users, id \in PostIds : deletePost(u, id)
    \/ \E u \in Users, id \in PostIds, c \in Bodies : editPost(u, id, c)
    \/ \E u \in Writers, id \in PostIds : likePost(u, id)
    \/ \E u \in Writers, id \in PostIds : unlikePost(u, id)
    \/ \E u \in Users, id \in PostIds : repostPost(u, id, 1) /\ Within(MaxAll)
    \/ \E u \in Users, id \in PostIds : unrepostPost(u, id)
    \/ \E u \in Users, id \in PostIds : unquotePost(u, id)
    \/ \E u \in Users, id \in PostIds, c \in QuoteBodies : createQuoteRepost(u, id, c, 1) /\ Within(MaxAll)
    \/ \E u \in Users, k \in Range(comments), c \in Drafts :
           createCommentRepost(u, k.id, c, k.authorId, k.parentId # Undefined, 1) /\ Within(MaxAll)
    \/ \E u \in Writers, p \in PostIdInputs, c \in Bodies : createComment(u, p, c, Undefined, 1) /\ Within(MaxAll)
    \/ \E u \in Users, k \in CommentIds \cup {now}, c \in Bodies : editComment(u, k, c)

SpecAll == Init /\ [][NextAll]_vars

----------------------------------------------------------------------------
(* Vocabulary of the properties, written on the stored fields alone *)

\* indices of u's non-quote reposts of c in ps
NonQuoteReposts(ps, u, c) ==
    {i \in 1..Len(ps) : /\ ps[i].isRepost
                        /\ ~ps[i].isQuote
                        /\ ps[i].authorId = u
                        /\ ps[i].originalPostId = c}

\* indices of u's quotes of c in ps
QuotesBy(ps, u, c) ==
    {i \in 1..Len(ps) : /\ ps[i].isQuote
                        /\ ps[i].authorId = u
                        /\ ps[i].originalPostId = c}

\* indices of the items of ps with the given id
Holding(ps, id) == {i \in 1..Len(ps) : ps[i].id = id}

\* id names an original (an item that is no repost, quote or comment repost) of ps
IsOriginalIn(ps, id) == \E i \in Holding(ps, id) : ~ps[i].isRepost

\* ps without the items at the indices in gone, order kept
Without(ps, gone) ==
    LET kept == {i \in 1..Len(ps) : i \notin gone}
        nth[k \in 0..Len(ps)] ==
            IF k = 0 THEN 0 ELSE CHOOSE i \in kept : i > nth[k - 1] /\ \A j \in kept : j > nth[k - 1] => i <= j
    IN [k \in 1..Cardinality(kept) |-> ps[nth[k]]]

Called(op) == last.call.op = op
Succeeded == last.err = "none"

----------------------------------------------------------------------------
\* C1: for every user U and post id C the collection holds at most one
\* non-quote repost by U of C, and a repostPost(U, C) on an original C of
\* which U already holds a non-quote repost throws the already-reposted error
\* (AlreadyRelated) and leaves the collection as it was.
C1_AtMostOneRepost ==
    /\ \A u \in Users, c \in 1..now : Cardinality(NonQuoteReposts(posts, u, c)) <= 1
    /\ ( /\ Called("repostPost")
         /\ IsOriginalIn(before.posts, last.call.target)
         /\ NonQuoteReposts(before.posts, last.call.user, last.call.target) # {} )
       => (last.err = "AlreadyRelated" /\ posts = before.posts)

\* a second repostPost(U, C) on an original has just been rejected
C1_Witness ==
    /\ Called("repostPost")
    /\ last.err = "AlreadyRelated"
    /\ IsOriginalIn(posts, last.call.target)
    /\ Cardinality(NonQuoteReposts(posts, last.call.user, last.call.target)) = 1

\* C2: when U holds a non-quote repost and a quote of the same original C,
\* unrepostPost(U, C) removes U's non-quote repost only and unquotePost(U, C)
\* removes U's quote only.
C2_UndoIndependent ==
    LET u == last.call.user
        c == last.call.target
        both == /\ IsOriginalIn(before.posts, c)
                /\ NonQuoteReposts(before.posts, u, c) # {}
                /\ QuotesBy(before.posts, u, c) # {}
    IN
    /\ (Called("unrepostPost") /\ both)
         => posts = Without(before.posts, NonQuoteReposts(before.posts, u, c))
    /\ (Called("unquotePost") /\ both)
         => posts = Without(before.posts, QuotesBy(before.posts, u, c))

\* C3: no non-quote repost points at an item that is itself a repost, and a
\* repostPost whose target R is a repost of C adds an item pointing at C.
C3_NoRepostChain ==
    /\ \A i, j \in 1..Len(posts) :
          (posts[i].isRepost /\ ~posts[i].isQuote /\ posts[j].isRepost)
             => posts[i].originalPostId # posts[j].id
    /\ \A k \in Holding(before.posts, last.call.target) :
          (Called("repostPost") /\ Succeeded /\ before.posts[k].isRepost)
             => /\ posts[1].originalPostId = before.posts[k].originalPostId
                /\ posts[1].originalPostId # before.posts[k].id

\* a repost of another user's repost has just been created
C3_Witness ==
    /\ Called("repostPost")
    /\ Succeeded
    /\ \E k \in Holding(before.posts, last.call.target) :
          /\ before.posts[k].isRepost
          /\ ~before.posts[k].isQuote
          /\ posts[1].originalPostId = before.posts[k].originalPostId
    /\ posts[1].authorId = last.call.user

\* C4: for every user U and post id C the collection holds at most one quote
\* by U of C, and a createQuoteRepost by U on C or on a repost of C (an item
\* tagged Repost; a target tagged Quote is refused as a quote of a quote)
\* while U holds a quote of C throws AlreadyQuoted and stores nothing.
C4_AtMostOneQuote ==
    /\ \A u \in Users, c \in 1..now : Cardinality(QuotesBy(posts, u, c)) <= 1
    /\ \A k \in Holding(before.posts, last.call.target) :
          LET t == before.posts[k]
              c == IF t.isRepost THEN t.originalPostId ELSE t.id
          IN ( /\ Called("createQuoteRepost")
               /\ ~t.isQuote
               /\ QuotesBy(before.posts, last.call.user, c) # {} )
                => (last.err = "AlreadyQuoted" /\ posts = before.posts)

\* U, holding a quote of C, has just been refused a quote of another user's
\* non-quote repost of C
C4_Witness ==
    /\ Called("createQuoteRepost")
    /\ last.err = "AlreadyQuoted"
    /\ \E k \in Holding(posts, last.call.target) :
          /\ posts[k].isRepost
          /\ ~posts[k].isQuote
          /\ posts[k].authorId # last.call.user
          /\ Cardinality(QuotesBy(posts, last.call.user, posts[k].originalPostId)) = 1

\* C5: deletePost(A, P) by P's author succeeds and removes P and every repost
\* and quote pointing at P, and nothing else.
C5_DeleteCascades ==
    \A k \in Holding(before.posts, last.call.target) :
       (Called("deletePost") /\ before.posts[k].authorId = last.call.user)
          => /\ Succeeded
             /\ posts = Without(before.posts,
                   {i \in 1..Len(before.posts) :
                       \/ before.posts[i].id = last.call.target
                       \/ /\ before.posts[i].isRepost
                          /\ before.posts[i].originalPostId = last.call.target})

\* an original with two non-quote reposts and one quote has just been deleted:
\* the four items are gone
C5_Witness ==
    /\ Called("deletePost")
    /\ Succeeded
    /\ IsOriginalIn(before.posts, last.call.target)
    /\ Cardinality({i \in 1..Len(before.posts) :
          /\ before.posts[i].isRepost
          /\ ~before.posts[i].isQuote
          /\ before.posts[i].originalPostId = last.call.target}) = 2
    /\ Cardinality({i \in 1..Len(before.posts) :
          /\ before.posts[i].isQuote
          /\ before.posts[i].originalPostId = last.call.target}) = 1
    /\ Len(before.posts) - Len(posts) = 4

\* C8: unrepostPost(U, C) on an original C undoes repostPost(U, C), and a
\* further unrepostPost(U, C) throws NotFound and removes nothing, whether or
\* not U holds a quote of C.
C8_UndoThenNotFound ==
    [][ LET u == last.call.user
            c == last.call.target
        IN ( /\ Called("unrepostPost")
             /\ Succeeded
             /\ IsOriginalIn(before.posts, c)
             /\ NonQuoteReposts(before.posts, u, c) # {}
             /\ posts = Without(before.posts, NonQuoteReposts(before.posts, u, c))
             /\ last'.call = last.call )
           => (last'.err = "NotFound" /\ posts' = posts) ]_vars

\* the ids of comment id and of its direct and indirect replies in cs
ThreadOf(cs, id) ==
    LET reach[n \in 0..Len(cs)] ==
            IF n = 0 THEN {id}
            ELSE reach[n - 1] \cup
                 {cs[i].id : i \in {j \in 1..Len(cs) : cs[j].parentId \in reach[n - 1]}}
    IN reach[Len(cs)]

\* C6: deleteComment(U, K) by K's author removes K and all of its direct and
\* indirect replies, whoever wrote them, and leaves no comment whose parentId
\* names a removed comment.
C6_DeleteCommentTree ==
    LET cs == before.comments
        gone == ThreadOf(cs, last.call.target)
    IN \A k \in Holding(cs, last.call.target) :
          (Called("deleteComment") /\ cs[k].authorId = last.call.user)
             => /\ comments = Without(cs, {i \in 1..Len(cs) : cs[i].id \in gone})
                /\ \A i \in 1..Len(comments) : comments[i].parentId \notin gone

\* C7: deleteComment(U, K) by a user who did not write K removes no comment.
C7_DeleteCommentForbidden ==
    \A k \in Holding(before.comments, last.call.target) :
       (Called("deleteComment") /\ before.comments[k].authorId # last.call.user)
          => comments = before.comments

\* C9: every stored post and comment has a content of at most 67 characters
\* and every quote a quoteContent of at most 67 characters.
C9_StoredBodiesBounded ==
    /\ \A i \in 1..Len(posts) :
          /\ Length(posts[i].content) <= 67
          /\ posts[i].isQuote => Length(posts[i].quoteContent[1]) <= 67
    /\ \A i \in 1..Len(comments) : Length(comments[i].content) <= 67

\* C10: every reply is written by the author of the post its parent comment
\* belongs to, and no comment has more than one reply.
C10_VerifiedReply ==
    /\ \A r, k \in 1..Len(comments) : \A p \in 1..Len(posts) :
          (comments[r].parentId = comments[k].id /\ comments[k].postId = posts[p].id)
             => comments[r].authorId = posts[p].authorId
    /\ \A k \in 1..Len(comments) :
          Cardinality({r \in 1..Len(comments) : comments[r].parentId = comments[k].id}) <= 1

\* C11: repostPost(U, R) on an item R with isRepost = true that U wrote throws
\* SelfRepostDenied and leaves the collection as it was.
C11_SelfRepostDenied ==
    \A k \in Holding(before.posts, last.call.target) :
       ( /\ Called("repostPost")
         /\ before.posts[k].isRepost
         /\ before.posts[k].authorId = last.call.user )
          => (last.err = "SelfRepostDenied" /\ posts = before.posts)

\* U has just been refused a repost of U's own non-quote repost
C11_Witness ==
    /\ Called("repostPost")
    /\ last.err = "SelfRepostDenied"
    /\ \E k \in Holding(posts, last.call.target) :
          /\ posts[k].isRepost
          /\ ~posts[k].isQuote
          /\ posts[k].authorId = last.call.user

\* C12: unrepostPost(U, X) throws Forbidden when X is a repost written by
\* another user and NotFound when X is no repost and U holds no non-quote
\* repost of X, and changes nothing in both cases; otherwise it removes the
\* identified repost (X itself, or U's non-quote repost of X) and nothing else.
C12_UnrepostContract ==
    LET u == last.call.user
        x == last.call.target
        ps == before.posts
    IN \A k \in Holding(ps, x) :
          Called("unrepostPost") =>
             /\ (ps[k].isRepost /\ ps[k].authorId # u)
                   => (last.err = "Forbidden" /\ posts = ps)
             /\ (~ps[k].isRepost /\ NonQuoteReposts(ps, u, x) = {})
                   => (last.err = "NotFound" /\ posts = ps)
             /\ (ps[k].isRepost /\ ps[k].authorId = u)
                   => (Succeeded /\ posts = Without(ps, {k}))
             /\ (~ps[k].isRepost /\ NonQuoteReposts(ps, u, x) # {})
                   => (Succeeded /\ posts = Without(ps, NonQuoteReposts(ps, u, x)))

\* C13: unquotePost(U, Q) on a quote Q written by another user throws
\* Forbidden; unquotePost(U, X) throws NotFound when X is no quote of another
\* user and U holds no quote with the id X or of the post X; the collection
\* is unchanged in both cases.
C13_UnquoteErrors ==
    LET u == last.call.user
        x == last.call.target
        ps == before.posts
        othersQuote == \E k \in Holding(ps, x) : ps[k].isQuote /\ ps[k].authorId # u
        matching == {i \in 1..Len(ps) : /\ ps[i].isQuote
                                        /\ ps[i].authorId = u
                                        /\ (ps[i].id = x \/ ps[i].originalPostId = x)}
    IN Called("unquotePost") =>
          /\ othersQuote => (last.err = "Forbidden" /\ posts = ps)
          /\ (~othersQuote /\ matching = {}) => (last.err = "NotFound" /\ posts = ps)

\* C14: createQuoteRepost on a target that is a quote throws
\* QuoteOfQuoteDenied and stores nothing; on a non-quote repost of C it stores
\* a quote with originalPostId = C; and no stored quote's originalPostId is
\* the id of a quote or of a repost.
C14_NoQuoteChain ==
    /\ \A k \in Holding(before.posts, last.call.target) :
          LET t == before.posts[k] IN
          Called("createQuoteRepost") =>
             /\ t.isQuote => (last.err = "QuoteOfQuoteDenied" /\ posts = before.posts)
             /\ (t.isRepost /\ ~t.isQuote /\ Succeeded)
                   => /\ posts[1].isQuote
                      /\ posts[1].originalPostId = t.originalPostId
                      /\ Len(posts) = Len(before.posts) + 1
    /\ \A i, j \in 1..Len(posts) :
          (posts[i].isQuote /\ (posts[j].isQuote \/ posts[j].isRepost))
             => posts[i].originalPostId # posts[j].id

\* a quote of a quote has just been refused while the collection holds a
\* quote that was made of a non-quote repost and points at the original
C14_Witness ==
    /\ Called("createQuoteRepost")
    /\ last.err = "QuoteOfQuoteDenied"
    /\ \E k \in Holding(posts, last.call.target) :
          /\ posts[k].isQuote
          /\ IsOriginalIn(posts, posts[k].originalPostId)
          /\ \E r \in 1..Len(posts) :
                /\ posts[r].isRepost
                /\ ~posts[r].isQuote
                /\ posts[r].originalPostId = posts[k].originalPostId
                /\ posts[r].id < posts[k].id

\* C15: createQuoteRepost with a quote body that is empty after trimming and
\* editPost with a body that is empty after trimming leave the collection
\* unchanged, and throw EmptyContent when the target exists (and, for
\* editPost, the caller wrote it).
C15_EmptyContent ==
    LET blank == Length(Trim(last.call.body)) = 0 IN
    /\ (Called("createQuoteRepost") /\ blank)
          => /\ posts = before.posts
             /\ (\E k \in Holding(before.posts, last.call.target) : ~before.posts[k].isQuote)
                   => last.err = "EmptyContent"
    /\ (Called("editPost") /\ blank)
          => /\ posts = before.posts
             /\ (\E k \in Holding(before.posts, last.call.target) :
                    before.posts[k].authorId = last.call.user)
                   => last.err = "EmptyContent"

\* C16: editPost by the author of an existing post and editComment, with a
\* body longer than 67 characters, throw ContentTooLong; every editPost and
\* editComment with such a body leaves its collection (content and createdAt
\* of every item) as it was.
C16_EditTooLong ==
    /\ (Called("editPost") /\ Length(last.call.body) > 67)
          => /\ posts = before.posts
             /\ (\E k \in Holding(before.posts, last.call.target) :
                    before.posts[k].authorId = last.call.user)
                   => last.err = "ContentTooLong"
    /\ (Called("editComment") /\ Length(last.call.body) > 67)
          => (last.err = "ContentTooLong" /\ comments = before.comments)

\* the author of a post has just been refused an edit with a body of 68 characters
C16_Witness ==
    /\ Called("editPost")
    /\ Length(last.call.body) > 67
    /\ last.err = "ContentTooLong"
    /\ \E k \in Holding(posts, last.call.target) :
          /\ posts[k].authorId = last.call.user
          /\ Length(posts[k].content) <= 67

\* user u is in the likes list of post
Likes(post, u) == \E k \in 1..Len(post.likes) : post.likes[k] = u

\* the number of times u is in the likes list of post
LikeCount(post, u) == Cardinality({k \in 1..Len(post.likes) : post.likes[k] = u})

\* C17: in every step, a stored post's content changes only in an editPost of
\* that post called by its author, a user enters or leaves a stored post's
\* likes list only in a likePost or unlikePost of that post called by that
\* user, and an editPost or deletePost of a post the caller did not write
\* throws Forbidden and changes nothing.
C17_OnlyOwner ==
    [][ /\ \A i \in 1..Len(posts), j \in 1..Len(posts') :
              posts[i].id = posts'[j].id =>
                 /\ posts[i].content # posts'[j].content
                       => /\ last'.call.op = "editPost"
                          /\ last'.call.target = posts[i].id
                          /\ last'.call.user = posts[i].authorId
                 /\ \A u \in Users :
                       Likes(posts[i], u) # Likes(posts'[j], u)
                          => /\ last'.call.op \in {"likePost", "unlikePost"}
                             /\ last'.call.target = posts[i].id
                             /\ last'.call.user = u
        /\ \A k \in Holding(posts, last'.call.target) :
              ( /\ last'.call.op \in {"editPost", "deletePost"}
                /\ posts[k].authorId # last'.call.user )
                 => (last'.err = "Forbidden" /\ posts' = posts) ]_vars

\* a user who likes another user's post has just been refused an edit of it
C17_Witness ==
    /\ Called("editPost")
    /\ last.err = "Forbidden"
    /\ \E k \in Holding(posts, last.call.target) :
          /\ posts[k].authorId # last.call.user
          /\ Likes(posts[k], last.call.user)
          /\ posts[k].content = Str(0, 5, 0)

\* what C18 states of single calls and of every state
C18_Idempotent ==
    /\ \A k \in Holding(before.posts, last.call.target) :
          /\ (Called("likePost") /\ Likes(before.posts[k], last.call.user))
                => posts = before.posts
          /\ (Called("unlikePost") /\ ~Likes(before.posts[k], last.call.user))
                => posts = before.posts
    /\ \A i \in 1..Len(posts), u \in Users : LikeCount(posts[i], u) <= 1

\* an unlikePost(U, P) that follows a likePost(U, P) leaves P with the likes
\* list it had before the likePost, provided needsNew => U did not like P then
C18_LikeThenUnlike(needsNew) ==
    \A k \in Holding(before.posts, last.call.target), j \in 1..Len(posts') :
       ( /\ Called("likePost")
         /\ Succeeded
         /\ last'.call = [last.call EXCEPT !.op = "unlikePost"]
         /\ posts'[j].id = last.call.target
         /\ needsNew => ~Likes(before.posts[k], last.call.user) )
          => posts'[j].likes = before.posts[k].likes

\* C18 (amended): likePost(U, P) when U already likes P and unlikePost(U, P)
\* when U does not like P leave the collection unchanged; no likes list holds
\* a user id twice; and a likePost(U, P) made when U did not like P, followed
\* by unlikePost(U, P), restores P's likes list.
C18_LikeUnlike ==
    /\ []C18_Idempotent
    /\ [][C18_LikeThenUnlike(TRUE)]_vars

\* C18 as stated: likePost(U, P) followed by unlikePost(U, P) restores P's
\* likes list, whether or not U liked P before.
C18_AsStated ==
    /\ []C18_Idempotent
    /\ [][C18_LikeThenUnlike(FALSE)]_vars

\* U, the last user to have liked a post that another user likes too, has
\* just unliked it
C18_Witness ==
    /\ Called("unlikePost")
    /\ Succeeded
    /\ \E k \in Holding(posts, last.call.target), b \in Holding(before.posts, last.call.target) :
          /\ Likes(before.posts[b], last.call.user)
          /\ before.posts[b].likes[Len(before.posts[b].likes)] = last.call.user
          /\ ~Likes(posts[k], last.call.user)
          /\ Len(posts[k].likes) = 1

\* indices of u's comment reposts of comment c in ps
CommentRepostsBy(ps, u, c) ==
    {i \in 1..Len(ps) : /\ ps[i].isCommentRepost
                        /\ ps[i].authorId = u
                        /\ ps[i].originalCommentId = c}

\* C19: for every user U and comment id K the collection holds at most one
\* comment repost by U of K, and a createCommentRepost by U for K while one
\* exists throws AlreadyReposted and stores nothing.
C19_AtMostOneCommentRepost ==
    /\ \A u \in Users, c \in 1..now : Cardinality(CommentRepostsBy(posts, u, c)) <= 1
    /\ ( /\ Called("createCommentRepost")
         /\ CommentRepostsBy(before.posts, last.call.user, last.call.target) # {} )
       => (last.err = "AlreadyReposted" /\ posts = before.posts)

\* a second createCommentRepost of the same comment has just been refused
C19_Witness ==
    /\ Called("createCommentRepost")
    /\ last.err = "AlreadyReposted"
    /\ Cardinality(CommentRepostsBy(posts, last.call.user, last.call.target)) = 1
    /\ \E k \in 1..Len(comments) : comments[k].id = last.call.target

\* C20: hasReposted, hasQuoted and getUserQuoteOfPost answer the same for
\* the id of a stored repost R and for the id of R's original.
C20_HelpersResolve ==
    \A u \in Users, r \in 1..Len(posts) :
       (posts[r].isRepost /\ ~posts[r].isQuote /\ posts[r].originalPostId # Undefined)
          => /\ hasReposted(posts, u, posts[r].id, FALSE)
                   = hasReposted(posts, u, posts[r].originalPostId, FALSE)
             /\ hasQuoted(posts, u, posts[r].id)
                   = hasQuoted(posts, u, posts[r].originalPostId)
             /\ getUserQuoteOfPost(posts, u, posts[r].id)
                   = getUserQuoteOfPost(posts, u, posts[r].originalPostId)

\* C21: a call that a validation check rejects (whatever error it raises)
\* leaves the rendered posts, the React state, the stored posts, the comments
\* and the stored comments as they were.
C21_RejectedChangesNothing ==
    [][ last'.err # "none" => UNCHANGED <<posts, pending, lsPosts, comments, lsComments>> ]_vars

\* an editComment of an existing comment has just been rejected for its length
\* while both collections hold items
C21_Witness ==
    /\ Called("editComment")
    /\ last.err = "ContentTooLong"
    /\ Holding(comments, last.call.target) # {}
    /\ lsComments = comments
    /\ lsPosts # <<>>

\* C22: a call whose write to localStorage failed has thrown to its caller.
C22_StorageFailureSurfaced ==
    last.write = "failed" => last.thrown # "none"

JustDeleted(id) ==
    /\ Called("deletePost")
    /\ Succeeded
    /\ last.call.target = id
    /\ Holding(before.posts, id) # {}
    /\ Holding(lsPosts, id) = {}

\* C28: once deletePost has removed a post, the stored posts do not hold an
\* item with that post's id again, whatever this or the other tab does next:
\* the call that follows the removal, in either tab, leaves the store without
\* the id.
C28_DeleteIsTerminal ==
    [][ \A id \in PostIds : JustDeleted(id) => Holding(lsPosts', id) = {} ]_vars

----------------------------------------------------------------------------
\* the items of a collection have pairwise distinct ids
DistinctIds(arr) ==
    \A i, j \in 1..Len(arr) : arr[i].id = arr[j].id => i = j

\* C24: in every reachable state the posts have pairwise distinct ids and the
\* comments have pairwise distinct ids, items created in immediate succession
\* included.
C24_DistinctIds ==
    /\ DistinctIds(posts)
    /\ DistinctIds(lsPosts)
    /\ DistinctIds(comments)

----------------------------------------------------------------------------
\* C25: a successful repostPost or createQuoteRepost adds exactly one new item
\* authored by the caller at index 0 and leaves the items that existed before
\* unchanged and in the same order.
C25_PrependsOne ==
    (Called("repostPost") \/ Called("createQuoteRepost")) /\ Succeeded =>
        /\ Len(posts) = Len(before.posts) + 1
        /\ posts[1].authorId = last.call.user
        /\ Holding(before.posts, posts[1].id) = {}
        /\ Tail(posts) = before.posts
        /\ lsPosts = posts

C25_Witness ==
    /\ Called("repostPost")
    /\ Succeeded
    /\ Len(before.posts) >= 2
    /\ posts[1].isRepost
    /\ ~posts[1].isQuote
    /\ posts[1].originalPostId = last.call.target
    /\ \E i \in 1..Len(before.posts) : before.posts[i].isQuote

----------------------------------------------------------------------------
\* C26: PostService.repostPost(id, U) rejects the call whenever U already has
\* a repost of the resolved original of the target, so calls of U on the
\* original or on any repost of it never leave U with two reposts of the same
\* original in the store.
C26_ServiceAtMostOneRepost ==
    \A u \in Users, c \in PostIds : Cardinality(NonQuoteReposts(lsPosts, u, c)) <= 1

----------------------------------------------------------------------------
\* C27: when a PostContext mutator rejects a call inside its setPosts updater
\* (the second repostPost(U, C), for instance), the rejection reaches the
\* caller of repostPost as a thrown error.
C27_RejectionThrown ==
    Called("repostPost") /\ last.err # "none" => last.thrown = last.err

----------------------------------------------------------------------------
\* C29: setValue has useState semantics for updater functions: setValue(f)
\* followed by setValue(g) before the component renders again leaves the
\* state and the persisted value equal to g(f(s)); here g is the updater of a
\* successful createPost and f(s) the state the call before it left.
C29_UpdaterSeesLatest ==
    [][ last'.call.op = "createPost" /\ last'.err = "none" =>
            /\ pending' = createPostUpdater(pending, last'.call.user, last'.call.body, now).value
            /\ lsPosts' = pending' ]_vars

----------------------------------------------------------------------------
\* the ids of the items of a collection
IdsOf(arr) == {arr[i].id : i \in 1..Len(arr)}

\* C30: after deactivateAccount succeeds for U the store holds no user record
\* for U, no post or comment authored by U, no post or comment whose
\* originalPostId, originalCommentId, postId or parentId names a post or
\* comment removed by the call, no like by U and no following list with U,
\* and the session is logged out.
C30_DeactivateLeavesNothing ==
    [][ last'.call.op = "deactivateAccount" /\ last'.err = "none" =>
            LET U == last'.call.user
                gonePosts == IdsOf(lsPosts) \ IdsOf(lsPosts')
                goneComments == IdsOf(lsComments) \ IdsOf(lsComments')
            IN
            /\ \A i \in 1..Len(lsUsers') : /\ lsUsers'[i].id # U
                                            /\ U \notin Range(lsUsers'[i].following)
            /\ \A i \in 1..Len(lsPosts') : /\ lsPosts'[i].authorId # U
                                            /\ U \notin Range(lsPosts'[i].likes)
                                            /\ lsPosts'[i].originalPostId \notin gonePosts
                                            /\ lsPosts'[i].originalCommentId \notin goneComments
            /\ \A i \in 1..Len(lsComments') : /\ lsComments'[i].authorId # U
                                               /\ U \notin Range(lsComments'[i].likes)
                                               /\ lsComments'[i].postId \notin gonePosts
                                               /\ lsComments'[i].parentId \notin goneComments
            /\ session' = NoUser ]_vars

============================================================================
